---- MODULE Spec2Model ----
(***************************************************************************)
(* Resource ownership of qTox call sessions (src/core/toxcall.cpp).        *)
(*                                                                         *)
(* One peer-to-peer call (ToxFriendCall) and one group call (ToxGroupCall)  *)
(* are constructed, used and destroyed against the shared device services: *)
(* Audio (input subscription count, output sources), CameraSource          *)
(* (subscription count), the heap of CoreVideoSource sinks, and the QTimer *)
(* owned by the peer-to-peer call.                                         *)
(***************************************************************************)
EXTENDS Integers, Sequences, FiniteSets, TLC

\* ------------------------------------------------------------------ bounds
MaxHandle == 3      \* output source handles the Audio service can hand out
NumPeers == 2       \* distinct group members (ToxPk values)
MaxCallId == 2      \* distinct callId arguments of startTimeout
MaxLives == 1       \* how often each call object is constructed in one run
MaxFires == 2       \* timeout signals delivered per timer start

NoSource == 0       \* the "no channel" value of getAlSource
NoSink == 0         \* videoSource is a null pointer
NoCallId == 0       \* there is no timer, so no callId is bound
Handles == 1..MaxHandle
Peers == 1..NumPeers
CallIds == 1..MaxCallId
States == {"NONE", "FINISHED"}

VARIABLES
    fc,         \* the ToxFriendCall object (fields of ToxCall + ToxFriendCall)
    gc,         \* the ToxGroupCall object (fields of ToxCall + ToxGroupCall)
    audio,      \* the Audio service: input subscriptions, output sources
    camSubs,    \* CameraSource: subscribe() calls minus unsubscribe() calls
    sinks,      \* CoreVideoSource objects allocated and not deleted
    calls,      \* how often each call object has been constructed
    fires,      \* timeoutCall invocations since the timer was last started
    hist,       \* history of what the constructors and addPeer did
    handlers,   \* lambdas connected to the frameAvailable signals, per send
    ret,        \* what the last operation was asked for and returned or passed on
    last        \* the operation (and branch) that produced this state

vars == <<fc, gc, audio, camSubs, sinks, calls, fires, hist, handlers, ret, last>>

\* ------------------------------------------------- external services
\* Audio::subscribeInput / unsubscribeInput: reference counted.
Audio_subscribeInput(a) == [a EXCEPT !.inputSubs = @ + 1]

Audio_unsubscribeInput(a) == [a EXCEPT !.inputSubs = @ - 1]

\* Audio::subscribeOutput(sid): hands out handle h, which must be free.
Audio_subscribeOutput(a, h) == [a EXCEPT !.outputs = @ \cup {h}]

\* Audio::unsubscribeOutput(sid): frees an outstanding handle; a release of
\* anything else is recorded.
Audio_unsubscribeOutput(a, h) ==
    IF h \in a.outputs
    THEN [a EXCEPT !.outputs = @ \ {h}, !.released = Append(@, h)]
    ELSE [a EXCEPT !.badRelease = TRUE, !.released = Append(@, h)]

\* the log of unsubscribeOutput calls starts empty at every operation
BeginOp(a) == [a EXCEPT !.released = <<>>]

FreeHandles(a) == Handles \ a.outputs

\* CameraSource::subscribe / unsubscribe.
Camera_subscribe(n) == n + 1

Camera_unsubscribe(n) == n - 1

\* ------------------------------------------------------------- QTimer
NoTimer == [exists |-> FALSE, active |-> FALSE, conns |-> <<>>, starts |-> 0]

\* new QTimer{} followed by connect(timeout, lambda capturing callId)
NewTimer(callId) ==
    [exists |-> TRUE, active |-> FALSE, conns |-> <<callId>>, starts |-> 0]

\* QTimer::start(CALL_TIMEOUT)
QTimer_start(t) == [t EXCEPT !.active = TRUE, !.starts = @ + 1]

\* A QTimer is repeating unless setSingleShot(true) was called; the code
\* never calls it, so the timer stays active after emitting timeout().
QTimer_afterTimeout(t) == t

\* ------------------------------------------------------------ ToxCall
\* Member defaults of a freshly constructed ToxCall.
DefaultCall(VideoEnabled) ==
    [live |-> TRUE, active |-> FALSE, muteVol |-> FALSE, muteMic |-> FALSE,
     videoEnabled |-> VideoEnabled, nullVideoBitrate |-> FALSE,
     videoSource |-> NoSink]

DeadCall == [DefaultCall(FALSE) EXCEPT !.live = FALSE]

ToxCall_isActive(c) == c.active

ToxCall_setActive(c, value) == [c EXCEPT !.active = value]

ToxCall_getMuteVol(c) == c.muteVol

ToxCall_getMuteMic(c) == c.muteMic

ToxCall_getVideoEnabled(c) == c.videoEnabled

ToxCall_getNullVideoBitrate(c) == c.nullVideoBitrate

ToxCall_setMuteVol(c, value) == [c EXCEPT !.muteVol = value]

\* a setMuteMic that writes both mute flags
ToxCall_setMuteMic_BothFlags(c, value) ==
    [c EXCEPT !.muteMic = value, !.muteVol = value]

ToxCall_setMuteMic(c, value) == [c EXCEPT !.muteMic = value]

ToxCall_setVideoEnabled(c, value) == [c EXCEPT !.videoEnabled = value]

ToxCall_setNullVideoBitrate(c, value) == [c EXCEPT !.nullVideoBitrate = value]

\* a destructor that forgets audio.unsubscribeInput()
ToxCall_dtor_audio_NoUnsubscribe(c, a) == a

\* ToxCall::~ToxCall, on the Audio service
ToxCall_dtor_audio(c, a) == Audio_unsubscribeInput(a)

\* ToxCall::~ToxCall, on the camera: keyed on the flag as it is now
ToxCall_dtor_camera(c, n) == IF c.videoEnabled THEN Camera_unsubscribe(n) ELSE n

\* ToxCall::~ToxCall, on the signal connections: audioInConn always,
\* videoInConn (valid only if the constructor connected it) under the flag
ToxCall_dtor_handlers(c, hd, audioSend) ==
    [hd EXCEPT ![audioSend] = @ - 1,
               !.sendCallVideo = IF c.videoEnabled /\ c.videoSource # NoSink
                                 THEN @ - 1 ELSE @]

\* ToxCall::~ToxCall never deletes videoSource
ToxCall_dtor_sinks(c, n) == n

\* ------------------------------------------------------ ToxFriendCall
DeadFriend ==
    [f \in DOMAIN DeadCall \cup {"alSource", "state", "timer"} |->
        IF f = "alSource" THEN NoSource
        ELSE IF f = "state" THEN "NONE"
        ELSE IF f = "timer" THEN NoTimer
        ELSE DeadCall[f]]

\* ToxFriendCall::ToxFriendCall: the object once the constructor has run
ToxFriendCall_ctor(VideoEnabled, h) ==
    [f \in DOMAIN DeadFriend |->
        IF f = "alSource" THEN h
        ELSE IF f = "videoSource" THEN (IF VideoEnabled THEN 1 ELSE NoSink)
        ELSE IF f \in {"state", "timer"} THEN DeadFriend[f]
        ELSE DefaultCall(VideoEnabled)[f]]

\* constructor, on the Audio service
ToxFriendCall_ctor_audio(a, h) ==
    Audio_subscribeOutput(Audio_subscribeInput(a), h)

\* constructor, on the camera
ToxFriendCall_ctor_camera(VideoEnabled, n) ==
    IF VideoEnabled THEN Camera_subscribe(n) ELSE n

\* constructor, on the signal connections (audioInConn, videoInConn)
ToxFriendCall_ctor_handlers(VideoEnabled, hd) ==
    [hd EXCEPT !.sendCallAudio = @ + 1,
               !.sendCallVideo = IF VideoEnabled THEN @ + 1 ELSE @]

\* constructor, on the heap of sinks
ToxFriendCall_ctor_sinks(VideoEnabled, n) ==
    IF VideoEnabled THEN n + 1 ELSE n

\* ToxFriendCall::~ToxFriendCall
ToxFriendCall_dtor_audio(c, a) == Audio_unsubscribeOutput(a, c.alSource)

\* a timeoutTimer held by a raw pointer: the QTimer outlives the call
ToxFriendCall_dtor_timer_Leaked(t) == t

\* the unique_ptr<QTimer> member is destroyed with the call: ~QTimer stops
\* the timer and drops its connections
ToxFriendCall_dtor_timer(t) == NoTimer

ToxFriendCall_setAlSource(c, value) == [c EXCEPT !.alSource = value]

ToxFriendCall_getState(c) == c.state

ToxFriendCall_setState(c, value) == [c EXCEPT !.state = value]

\* startTimeout without the "if (!timeoutTimer)" test: a new timer every call
ToxFriendCall_startTimeout_AlwaysNew(t, callId) == QTimer_start(NewTimer(callId))

\* startTimeout that connects the lambda of the new callId every time
ToxFriendCall_startTimeout_Rebind(t, callId) ==
    LET t1 == IF ~t.exists THEN NewTimer(callId)
              ELSE [t EXCEPT !.conns = <<callId>>]
    IN  IF ~t1.active THEN QTimer_start(t1) ELSE t1

\* ToxFriendCall::startTimeout: the timer afterwards
ToxFriendCall_startTimeout(t, callId) ==
    LET t1 == IF ~t.exists THEN NewTimer(callId) ELSE t
    IN  IF ~t1.active THEN QTimer_start(t1) ELSE t1

\* stopTimeout that stops the timer but keeps the object
ToxFriendCall_stopTimeout_NoReset(t) ==
    IF ~t.exists THEN t ELSE [t EXCEPT !.active = FALSE]

\* ToxFriendCall::stopTimeout: the timer afterwards
ToxFriendCall_stopTimeout(t) == IF ~t.exists THEN t ELSE NoTimer

\* ------------------------------------------------------- ToxGroupCall
EmptyPeers == [p \in {} |-> NoSource]

DeadGroup ==
    [f \in DOMAIN DeadCall \cup {"peers"} |->
        IF f = "peers" THEN EmptyPeers ELSE DeadCall[f]]

\* ToxGroupCall::ToxGroupCall
ToxGroupCall_ctor ==
    [f \in DOMAIN DeadGroup |->
        IF f = "peers" THEN EmptyPeers ELSE DefaultCall(FALSE)[f]]

ToxGroupCall_ctor_audio(a) == Audio_subscribeInput(a)

\* constructor, on the signal connections (audioInConn)
ToxGroupCall_ctor_handlers(hd) == [hd EXCEPT !.sendGroupCallAudio = @ + 1]

\* the values of the QMap in key order, as "for (quint32 v : peers)" sees them
RECURSIVE PeerValues(_, _)
PeerValues(peers, keys) ==
    IF keys = {} THEN <<>>
    ELSE LET k == CHOOSE x \in keys : \A y \in keys : x <= y
         IN  <<peers[k]>> \o PeerValues(peers, keys \ {k})

RECURSIVE UnsubscribeAll(_, _)
UnsubscribeAll(a, vs) ==
    IF vs = <<>> THEN a
    ELSE UnsubscribeAll(Audio_unsubscribeOutput(a, Head(vs)), Tail(vs))

\* a destructor that releases no member channel
ToxGroupCall_dtor_audio_NoRelease(c, a) == a

\* ToxGroupCall::~ToxGroupCall
ToxGroupCall_dtor_audio(c, a) ==
    UnsubscribeAll(a, PeerValues(c.peers, DOMAIN c.peers))

\* an insert that keeps the value of a present key (std::map::insert)
QMap_insert_KeepOld(peers, k, v) ==
    [p \in DOMAIN peers \cup {k} |-> IF p \in DOMAIN peers THEN peers[p] ELSE v]

\* QMap::insert(key, value): replaces the value of a present key
QMap_insert(peers, k, v) ==
    [p \in DOMAIN peers \cup {k} |-> IF p = k THEN v ELSE peers[p]]

\* a remove that drops every entry
QMap_remove_All(peers, k) == [p \in {} |-> NoSource]

QMap_remove(peers, k) == [p \in DOMAIN peers \ {k} |-> peers[p]]

\* ToxGroupCall::addPeer
ToxGroupCall_addPeer(c, peerId, h) ==
    [c EXCEPT !.peers = QMap_insert(@, peerId, h)]

ToxGroupCall_addPeer_audio(a, h) == Audio_subscribeOutput(a, h)

\* removePeer that releases the channel but keeps the map entry
ToxGroupCall_removePeer_KeepEntry(c, peerId) == c

\* ToxGroupCall::removePeer
ToxGroupCall_removePeer(c, peerId) ==
    IF peerId \notin DOMAIN c.peers THEN c
    ELSE [c EXCEPT !.peers = QMap_remove(@, peerId)]

\* removePeer without the "sourceId == peers.constEnd()" test
ToxGroupCall_removePeer_audio_NoCheck(c, a, peerId) ==
    Audio_unsubscribeOutput(a, IF peerId \in DOMAIN c.peers
                               THEN c.peers[peerId] ELSE NoSource)

ToxGroupCall_removePeer_audio(c, a, peerId) ==
    IF peerId \notin DOMAIN c.peers THEN a
    ELSE Audio_unsubscribeOutput(a, c.peers[peerId])

\* ToxGroupCall::havePeer
ToxGroupCall_havePeer(c, peerId) == peerId \in DOMAIN c.peers

\* clearPeers that releases the channels but forgets peers.clear()
ToxGroupCall_clearPeers_NoClear(c) == c

\* ToxGroupCall::clearPeers
ToxGroupCall_clearPeers(c) == [c EXCEPT !.peers = EmptyPeers]

\* clearPeers that empties the map without releasing the channels
ToxGroupCall_clearPeers_audio_NoRelease(c, a) == a

ToxGroupCall_clearPeers_audio(c, a) ==
    UnsubscribeAll(a, PeerValues(c.peers, DOMAIN c.peers))

\* ToxGroupCall::getAlSource: the value returned
ToxGroupCall_getAlSource(c, peer) ==
    IF ~ToxGroupCall_havePeer(c, peer) THEN NoSource ELSE c.peers[peer]

\* QMap::operator[] on a non-const map: an absent key is inserted with a
\* default-constructed value
QMap_index(peers, k) ==
    IF k \in DOMAIN peers THEN peers ELSE QMap_insert(peers, k, NoSource)

\* getAlSource without the havePeer test
ToxGroupCall_getAlSource_peers_NoCheck(c, peer) == QMap_index(c.peers, peer)

\* ToxGroupCall::getAlSource: the map afterwards
ToxGroupCall_getAlSource_peers(c, peer) ==
    IF ~ToxGroupCall_havePeer(c, peer) THEN c.peers ELSE QMap_index(c.peers, peer)

\* ------------------------------------------------------------- state
InitHist ==
    [ctorVideo |-> FALSE, ctorSource |-> NoSource,
     dupAdd |-> FALSE, orphans |-> {}, armedAtDtor |-> FALSE,
     timerId |-> NoCallId]

NoHandlers ==
    [sendCallAudio |-> 0, sendCallVideo |-> 0, sendGroupCallAudio |-> 0]

Init ==
    /\ fc = DeadFriend
    /\ gc = DeadGroup
    /\ audio = [inputSubs |-> 0, outputs |-> {},
                badRelease |-> FALSE, released |-> <<>>]
    /\ camSubs = 0
    /\ sinks = 0
    /\ fires = 0
    /\ calls = [k \in {"friend", "group"} |-> 0]
    /\ hist = InitHist
    /\ handlers = NoHandlers
    /\ ret = <<>>
    /\ last = "init"

\* ---------------------------------------------------- friend actions
ConstructFriend(VideoEnabled, h) ==
    /\ ~fc.live
    /\ h \in FreeHandles(audio)
    /\ calls.friend < MaxLives
    /\ calls' = [calls EXCEPT !.friend = @ + 1]
    /\ fc' = ToxFriendCall_ctor(VideoEnabled, h)
    /\ audio' = ToxFriendCall_ctor_audio(BeginOp(audio), h)
    /\ camSubs' = ToxFriendCall_ctor_camera(VideoEnabled, camSubs)
    /\ sinks' = ToxFriendCall_ctor_sinks(VideoEnabled, sinks)
    /\ hist' = [hist EXCEPT !.ctorVideo = VideoEnabled, !.ctorSource = h,
                             !.armedAtDtor = FALSE]
    /\ handlers' = ToxFriendCall_ctor_handlers(VideoEnabled, handlers)
    /\ ret' = <<>>
    /\ last' = "ToxFriendCall"
    /\ UNCHANGED <<gc, fires>>

\* ~ToxFriendCall, then the members (the unique_ptr<QTimer>), then ~ToxCall
DestroyFriend ==
    /\ fc.live
    /\ fc' = [DeadFriend EXCEPT !.timer = ToxFriendCall_dtor_timer(fc.timer)]
    /\ audio' = ToxCall_dtor_audio(fc, ToxFriendCall_dtor_audio(fc, BeginOp(audio)))
    /\ camSubs' = ToxCall_dtor_camera(fc, camSubs)
    /\ sinks' = ToxCall_dtor_sinks(fc, sinks)
    /\ fires' = 0
    /\ hist' = [hist EXCEPT !.armedAtDtor = fc.timer.exists /\ fc.timer.active,
                             !.timerId = NoCallId]
    /\ handlers' = ToxCall_dtor_handlers(fc, handlers, "sendCallAudio")
    /\ ret' = <<>>
    /\ last' = "~ToxFriendCall"
    /\ UNCHANGED <<calls, gc>>

\* what a plain member setter of the peer-to-peer call leaves alone
FriendRest ==
    /\ last' = "setter"
    /\ audio' = BeginOp(audio)
    /\ ret' = <<>>
    /\ UNCHANGED <<calls, gc, camSubs, sinks, fires, hist, handlers>>

FriendSetActive(value) ==
    /\ fc.live
    /\ fc' = ToxCall_setActive(fc, value)
    /\ FriendRest

FriendSetMuteVol(value) ==
    /\ fc.live
    /\ fc' = ToxCall_setMuteVol(fc, value)
    /\ FriendRest

FriendSetMuteMic(value) ==
    /\ fc.live
    /\ fc' = ToxCall_setMuteMic(fc, value)
    /\ FriendRest

FriendSetVideoEnabled(value) ==
    /\ fc.live
    /\ fc' = ToxCall_setVideoEnabled(fc, value)
    /\ FriendRest

FriendSetNullVideoBitrate(value) ==
    /\ fc.live
    /\ fc' = ToxCall_setNullVideoBitrate(fc, value)
    /\ FriendRest

SetAlSource(value) ==
    /\ fc.live
    /\ fc' = ToxFriendCall_setAlSource(fc, value)
    /\ FriendRest

SetState(value) ==
    /\ fc.live
    /\ fc' = ToxFriendCall_setState(fc, value)
    /\ FriendRest

StartTimeout(callId) ==
    /\ fc.live
    /\ fc' = [fc EXCEPT !.timer = ToxFriendCall_startTimeout(@, callId)]
    /\ fires' = IF fc.timer.exists /\ fc.timer.active THEN fires ELSE 0
    /\ last' = IF ~fc.timer.exists THEN "startTimeout:new"
               ELSE IF fc.timer.active THEN "startTimeout:active"
               ELSE "startTimeout:restart"
    /\ hist' = IF ~fc.timer.exists THEN [hist EXCEPT !.timerId = callId] ELSE hist
    /\ audio' = BeginOp(audio)
    /\ ret' = <<callId>>
    /\ UNCHANGED <<calls, gc, camSubs, sinks, handlers>>

StopTimeout ==
    /\ fc.live
    /\ fc' = [fc EXCEPT !.timer = ToxFriendCall_stopTimeout(@)]
    /\ fires' = 0
    /\ last' = IF fc.timer.exists THEN "stopTimeout:timer" ELSE "stopTimeout:none"
    /\ hist' = [hist EXCEPT !.timerId = NoCallId]
    /\ audio' = BeginOp(audio)
    /\ ret' = <<>>
    /\ UNCHANGED <<calls, gc, camSubs, sinks, handlers>>

\* whether the event loop can deliver the timer's timeout() signal
TimerCanFire == fc.timer.exists /\ fc.timer.active

\* QTimer::timeout reaches the connected lambda: avCopy->timeoutCall(callId)
TimeoutFires ==
    /\ TimerCanFire
    /\ fires < MaxFires
    /\ fires' = fires + Len(fc.timer.conns)
    /\ fc' = [fc EXCEPT !.timer = QTimer_afterTimeout(@)]
    /\ last' = "timeoutCall"
    /\ audio' = BeginOp(audio)
    /\ ret' = fc.timer.conns
    /\ UNCHANGED <<calls, gc, camSubs, sinks, hist, handlers>>

\* ----------------------------------------------------- group actions
ConstructGroup ==
    /\ ~gc.live
    /\ calls.group < MaxLives
    /\ calls' = [calls EXCEPT !.group = @ + 1]
    /\ gc' = ToxGroupCall_ctor
    /\ audio' = ToxGroupCall_ctor_audio(BeginOp(audio))
    /\ hist' = [hist EXCEPT !.dupAdd = FALSE]
    /\ handlers' = ToxGroupCall_ctor_handlers(handlers)
    /\ ret' = <<>>
    /\ last' = "ToxGroupCall"
    /\ UNCHANGED <<fc, camSubs, sinks, fires>>

\* ~ToxGroupCall, then ~ToxCall
DestroyGroup ==
    /\ gc.live
    /\ gc' = DeadGroup
    /\ audio' = ToxCall_dtor_audio(gc, ToxGroupCall_dtor_audio(gc, BeginOp(audio)))
    /\ camSubs' = ToxCall_dtor_camera(gc, camSubs)
    /\ sinks' = ToxCall_dtor_sinks(gc, sinks)
    /\ handlers' = ToxCall_dtor_handlers(gc, handlers, "sendGroupCallAudio")
    /\ ret' = <<>>
    /\ last' = "~ToxGroupCall"
    /\ UNCHANGED <<calls, fc, fires, hist>>

\* what a plain member setter of the group call leaves alone
GroupRest ==
    /\ last' = "setter"
    /\ audio' = BeginOp(audio)
    /\ ret' = <<>>
    /\ UNCHANGED <<calls, fc, camSubs, sinks, fires, hist, handlers>>

GroupSetActive(value) ==
    /\ gc.live
    /\ gc' = ToxCall_setActive(gc, value)
    /\ GroupRest

GroupSetMuteVol(value) ==
    /\ gc.live
    /\ gc' = ToxCall_setMuteVol(gc, value)
    /\ GroupRest

GroupSetMuteMic(value) ==
    /\ gc.live
    /\ gc' = ToxCall_setMuteMic(gc, value)
    /\ GroupRest

GroupSetVideoEnabled(value) ==
    /\ gc.live
    /\ gc' = ToxCall_setVideoEnabled(gc, value)
    /\ GroupRest

GroupSetNullVideoBitrate(value) ==
    /\ gc.live
    /\ gc' = ToxCall_setNullVideoBitrate(gc, value)
    /\ GroupRest

AddPeer(peerId, h) ==
    /\ gc.live
    /\ h \in FreeHandles(audio)
    /\ gc' = ToxGroupCall_addPeer(gc, peerId, h)
    /\ audio' = ToxGroupCall_addPeer_audio(BeginOp(audio), h)
    /\ hist' = IF ToxGroupCall_havePeer(gc, peerId)
               THEN [hist EXCEPT !.dupAdd = TRUE,
                                 !.orphans = @ \cup {gc.peers[peerId]}]
               ELSE hist
    /\ last' = IF ToxGroupCall_havePeer(gc, peerId)
               THEN "addPeer:present" ELSE "addPeer:absent"
    /\ ret' = <<>>
    /\ UNCHANGED <<calls, fc, camSubs, sinks, fires, handlers>>

RemovePeer(peerId) ==
    /\ gc.live
    /\ gc' = ToxGroupCall_removePeer(gc, peerId)
    /\ audio' = ToxGroupCall_removePeer_audio(gc, BeginOp(audio), peerId)
    /\ last' = IF ToxGroupCall_havePeer(gc, peerId)
               THEN "removePeer:present" ELSE "removePeer:absent"
    /\ ret' = <<>>
    /\ UNCHANGED <<calls, fc, camSubs, sinks, fires, hist, handlers>>

ClearPeers ==
    /\ gc.live
    /\ gc' = ToxGroupCall_clearPeers(gc)
    /\ audio' = ToxGroupCall_clearPeers_audio(gc, BeginOp(audio))
    /\ last' = "clearPeers"
    /\ ret' = <<>>
    /\ UNCHANGED <<calls, fc, camSubs, sinks, fires, hist, handlers>>

GetAlSource(peer) ==
    /\ gc.live
    /\ gc' = [gc EXCEPT !.peers = ToxGroupCall_getAlSource_peers(gc, peer)]
    /\ ret' = <<peer, ToxGroupCall_getAlSource(gc, peer)>>
    /\ audio' = BeginOp(audio)
    /\ last' = "getAlSource"
    /\ UNCHANGED <<calls, fc, camSubs, sinks, fires, hist, handlers>>

\* ------------------------------------------------ frame notifications
\* what the delivery of one frame to one connected lambda leaves alone
FrameRest ==
    /\ audio' = BeginOp(audio)
    /\ ret' = <<>>
    /\ UNCHANGED <<fc, gc, camSubs, sinks, calls, fires, hist, handlers>>

\* Audio::frameAvailable reaches the lambda of a ToxFriendCall
SendCallAudio ==
    /\ audio.inputSubs > 0
    /\ handlers.sendCallAudio > 0
    /\ last' = "sendCallAudio"
    /\ FrameRest

\* Audio::frameAvailable reaches the lambda of a ToxGroupCall
SendGroupCallAudio ==
    /\ audio.inputSubs > 0
    /\ handlers.sendGroupCallAudio > 0
    /\ last' = "sendGroupCallAudio"
    /\ FrameRest

\* VideoSource::frameAvailable reaches the lambda of a ToxFriendCall
SendCallVideo ==
    /\ camSubs > 0
    /\ handlers.sendCallVideo > 0
    /\ last' = "sendCallVideo"
    /\ FrameRest

\* ------------------------------------------------------ specifications
FriendNext ==
    \/ \E v \in BOOLEAN, h \in Handles : ConstructFriend(v, h)
    \/ DestroyFriend
    \/ \E v \in BOOLEAN : FriendSetActive(v)
    \/ \E v \in BOOLEAN : FriendSetMuteVol(v)
    \/ \E v \in BOOLEAN : FriendSetMuteMic(v)
    \/ \E v \in BOOLEAN : FriendSetVideoEnabled(v)
    \/ \E v \in BOOLEAN : FriendSetNullVideoBitrate(v)
    \/ \E v \in Handles \cup {NoSource} : SetAlSource(v)
    \/ \E v \in States : SetState(v)
    \/ \E id \in CallIds : StartTimeout(id)
    \/ StopTimeout
    \/ TimeoutFires

GroupNext ==
    \/ ConstructGroup
    \/ DestroyGroup
    \/ \E v \in BOOLEAN : GroupSetActive(v)
    \/ \E v \in BOOLEAN : GroupSetMuteVol(v)
    \/ \E v \in BOOLEAN : GroupSetMuteMic(v)
    \/ \E v \in BOOLEAN : GroupSetVideoEnabled(v)
    \/ \E v \in BOOLEAN : GroupSetNullVideoBitrate(v)
    \/ \E p \in Peers, h \in Handles : AddPeer(p, h)
    \/ \E p \in Peers : RemovePeer(p)
    \/ ClearPeers
    \/ \E p \in Peers : GetAlSource(p)

\* both calls side by side: construction, destruction, group membership and
\* the flags the destructors read, against the shared services
Next ==
    \/ \E v \in BOOLEAN, h \in Handles : ConstructFriend(v, h)
    \/ DestroyFriend
    \/ \E v \in BOOLEAN : FriendSetActive(v)
    \/ \E v \in BOOLEAN : FriendSetVideoEnabled(v)
    \/ ConstructGroup
    \/ DestroyGroup
    \/ \E v \in BOOLEAN : GroupSetActive(v)
    \/ \E v \in BOOLEAN : GroupSetVideoEnabled(v)
    \/ \E p \in Peers, h \in Handles : AddPeer(p, h)
    \/ \E p \in Peers : RemovePeer(p)
    \/ ClearPeers

\* a peer-to-peer call and its timer
TimerNext ==
    \/ \E v \in BOOLEAN, h \in Handles : ConstructFriend(v, h)
    \/ DestroyFriend
    \/ \E v \in BOOLEAN : FriendSetVideoEnabled(v)
    \/ \E id \in CallIds : StartTimeout(id)
    \/ StopTimeout
    \/ TimeoutFires

\* a peer-to-peer call and its member setters, with and without a timer
SettersNext ==
    \/ \E v \in BOOLEAN, h \in Handles : ConstructFriend(v, h)
    \/ DestroyFriend
    \/ \E v \in BOOLEAN : FriendSetActive(v)
    \/ \E v \in BOOLEAN : FriendSetMuteVol(v)
    \/ \E v \in BOOLEAN : FriendSetMuteMic(v)
    \/ \E v \in BOOLEAN : FriendSetVideoEnabled(v)
    \/ \E v \in BOOLEAN : FriendSetNullVideoBitrate(v)
    \/ \E v \in States : SetState(v)
    \/ \E id \in CallIds : StartTimeout(id)

\* both calls with the capture devices delivering frames
FramesNext ==
    \/ \E v \in BOOLEAN, h \in Handles : ConstructFriend(v, h)
    \/ DestroyFriend
    \/ \E v \in BOOLEAN : FriendSetVideoEnabled(v)
    \/ ConstructGroup
    \/ DestroyGroup
    \/ \E v \in BOOLEAN : GroupSetVideoEnabled(v)
    \/ SendCallAudio
    \/ SendGroupCallAudio
    \/ SendCallVideo

Spec == Init /\ [][Next]_vars

SpecFrames == Init /\ [][FramesNext]_vars

SpecTimer == Init /\ [][TimerNext]_vars

SpecSetters == Init /\ [][SettersNext]_vars

\* a peer-to-peer call alone
SpecFriend == Init /\ [][FriendNext]_vars

\* a group call alone
SpecGroup == Init /\ [][GroupNext]_vars

\* ------------------------------------------------------------ claims
Live(c) == IF c.live THEN 1 ELSE 0

Range(f) == {f[x] : x \in DOMAIN f}

\* C1: the audio input subscription count is its initial value (0) plus the
\* number of live sessions, whatever operations ran on them.
C1_InputSubscriptions == audio.inputSubs = Live(fc) + Live(gc)

\* both calls were live, the group call had members, and the group call has
\* just been destroyed while the peer-to-peer call lives on
C1_Witness ==
    /\ last = "~ToxGroupCall"
    /\ audio.released # <<>>
    /\ fc.live
    /\ audio.inputSubs = 1

\* C2: a call constructed with video owns one camera subscription and one
\* sink from construction on and none after destruction; a call constructed
\* without video never creates either.
C2_VideoResources ==
    [][/\ (~fc.live /\ fc'.live) =>
            /\ camSubs' = camSubs + (IF hist'.ctorVideo THEN 1 ELSE 0)
            /\ sinks' = sinks + (IF hist'.ctorVideo THEN 1 ELSE 0)
            /\ (fc'.videoSource # NoSink) = hist'.ctorVideo
       /\ (fc.live /\ ~fc'.live) =>
            /\ camSubs' = camSubs - (IF hist.ctorVideo THEN 1 ELSE 0)
            /\ sinks' = sinks - (IF hist.ctorVideo THEN 1 ELSE 0)
       /\ (fc.live /\ fc'.live) => (camSubs' = camSubs /\ sinks' = sinks)]_vars

\* C3: the destructor calls the camera's unsubscribe exactly once if the
\* constructor called subscribe and never otherwise, whatever setVideoEnabled
\* and setNullVideoBitrate calls came in between.
C3_CameraBalanced ==
    [][(fc.live /\ ~fc'.live) =>
            camSubs' = (IF hist.ctorVideo THEN camSubs - 1 ELSE camSubs)]_vars

\* C4: the handle released at destruction is the handle the constructor
\* obtained, released once, so that no channel of the call stays outstanding,
\* whatever setAlSource, setState, startTimeout and stopTimeout calls came
\* in between.
C4_OneChannelForLife ==
    /\ fc.live => hist.ctorSource \in audio.outputs
    /\ last = "~ToxFriendCall" =>
            /\ audio.released = <<hist.ctorSource>>
            /\ hist.ctorSource \notin audio.outputs
            /\ ~audio.badRelease

\* C5 as stated: once a group call is destroyed, every channel an addPeer of
\* it acquired has been released exactly once, whatever ids were passed.
C5_NoLeakedChannel ==
    ~gc.live => (audio.outputs = {} /\ ~audio.badRelease)

\* C5 as amended: once a group call is destroyed, every channel an addPeer
\* acquired has been released exactly once, except the channels whose map
\* entry an addPeer of an already present id overwrote: those are never
\* released. No handle is released twice.
C5_OnlyOverwrittenLeak ==
    /\ ~gc.live => audio.outputs = hist.orphans
    /\ ~audio.badRelease

\* a group call was destroyed after an addPeer of a present id
C5_Witness ==
    /\ last = "~ToxGroupCall"
    /\ hist.orphans # {}
    /\ audio.released # <<>>

IsPermutation(s, S) ==
    /\ Len(s) = Cardinality(S)
    /\ {s[i] : i \in DOMAIN s} = S

\* C6: when addPeer was only called for absent ids, destroying the group
\* call calls unsubscribeOutput once for each handle in the map and for
\* nothing else, and not at all when clearPeers came last.
C6_DestroyReleasesMembers ==
    [][(gc.live /\ ~gc'.live /\ ~hist.dupAdd) =>
            /\ IsPermutation(audio'.released, Range(gc.peers))
            /\ Range(gc.peers) \subseteq audio.outputs
            /\ audio'.outputs = audio.outputs \ Range(gc.peers)
            /\ audio'.badRelease = audio.badRelease
            /\ (last = "clearPeers" => audio'.released = <<>>)]_vars

\* a group call with two members, never given a present id, was destroyed
C6_Witness ==
    /\ last = "~ToxGroupCall"
    /\ ~hist.dupAdd
    /\ Len(audio.released) = 2

MapHandlesHeld ==
    gc.live => \A p \in DOMAIN gc.peers :
                    /\ gc.peers[p] \in Handles
                    /\ gc.peers[p] \in audio.outputs

\* C7: every key of the member map of a live group call maps to a handle
\* that is acquired and not released, and removePeer of a present id
\* releases that id's handle and erases the entry.
C7_MapHoldsLiveHandles ==
    [][/\ MapHandlesHeld'
       /\ last' = "removePeer:present" =>
            \E p \in DOMAIN gc.peers :
                /\ audio'.released = <<gc.peers[p]>>
                /\ gc.peers[p] \notin audio'.outputs
                /\ DOMAIN gc'.peers = DOMAIN gc.peers \ {p}]_vars

\* a member was removed while another one stays in the map
C7_Witness ==
    /\ last = "removePeer:present"
    /\ DOMAIN gc.peers # {}
    /\ Len(audio.released) = 1

\* C8: one startTimeout leads to at most one timeoutCall.
C8_FiresOncePerStart == fires <= 1

\* C9: a call never has more than one timer binding or one start per timer,
\* and startTimeout on a timer that is counting down changes nothing.
C9_NoDoubleArm ==
    [][/\ fc'.timer.exists =>
            (Len(fc'.timer.conns) = 1 /\ fc'.timer.starts = 1 /\ fc'.timer.active)
       /\ last' = "startTimeout:active" =>
            (fc' = fc /\ fires' = fires)]_vars

\* startTimeout was called on a timer that was counting down
C9_Witness ==
    /\ last = "startTimeout:active"
    /\ fc.timer.exists
    /\ fc.timer.active

\* C10: stopTimeout without a timer changes nothing; stopTimeout with a
\* timer leaves no timer, and timeoutCall only ever comes from a timer that
\* exists and is counting down.
C10_StopTimeout ==
    [][/\ last' = "stopTimeout:none" =>
            /\ fc' = fc
            /\ audio'.inputSubs = audio.inputSubs
            /\ audio'.outputs = audio.outputs
            /\ UNCHANGED <<gc, camSubs, sinks, fires>>
       /\ last' = "stopTimeout:timer" =>
            (~fc'.timer.exists /\ ~fc'.timer.active /\ fires' = 0)
       /\ last' = "timeoutCall" => (fc.timer.exists /\ fc.timer.active)
       /\ fires' > fires => (fc.timer.exists /\ fc.timer.active)]_vars

\* stopTimeout discarded a timer that had already fired
C10_Witness ==
    /\ last = "stopTimeout:timer"
    /\ ~fc.timer.exists
    /\ fc.live

\* C11: once the peer-to-peer call is destroyed its timer cannot deliver
\* timeout() any more, and no timeoutCall is ever invoked while the call is
\* not alive, even when the timer was counting down at destruction.
C11_NoFireAfterDestroy ==
    [][/\ (fc.live /\ ~fc'.live) => ~TimerCanFire'
       /\ ~fc.live => ~TimerCanFire
       /\ last' = "timeoutCall" => fc.live
       /\ fires' > fires => fc.live]_vars

\* the call was destroyed while its timer was counting down
C11_Witness ==
    /\ last = "~ToxFriendCall"
    /\ hist.armedAtDtor
    /\ ~fc.live
    /\ ~fc.timer.exists

\* C12: no sendCallAudio, sendCallVideo or sendGroupCallAudio is dispatched
\* for a call that has been destroyed, and a destroyed call has no frame
\* handler left connected.
C12_NoSendAfterDestroy ==
    /\ last \in {"sendCallAudio", "sendCallVideo"} => fc.live
    /\ last = "sendGroupCallAudio" => gc.live
    /\ ~fc.live => (handlers.sendCallAudio = 0 /\ handlers.sendCallVideo = 0)
    /\ ~gc.live => handlers.sendGroupCallAudio = 0

\* C13: clearPeers on a map of N members calls unsubscribeOutput N times,
\* once for each stored handle, and leaves the map empty; a clearPeers that
\* follows a clearPeers releases nothing.
C13_ClearPeers ==
    [][last' = "clearPeers" =>
            /\ Len(audio'.released) = Cardinality(DOMAIN gc.peers)
            /\ IsPermutation(audio'.released, Range(gc.peers))
            /\ audio'.outputs = audio.outputs \ Range(gc.peers)
            /\ audio'.badRelease = audio.badRelease
            /\ gc'.peers = EmptyPeers
            /\ (last = "clearPeers" =>
                    (audio'.released = <<>> /\ audio'.outputs = audio.outputs))]_vars

\* clearPeers ran on a map of two members
C13_Witness ==
    /\ last = "clearPeers"
    /\ gc.live
    /\ Len(audio.released) = 2
    /\ gc.peers = EmptyPeers

\* C14: removePeer of an id that is not in the map changes neither the map
\* nor any other field, and releases nothing.
C14_RemoveAbsent ==
    [][last' = "removePeer:absent" =>
            /\ gc' = gc
            /\ audio'.released = <<>>
            /\ audio'.outputs = audio.outputs
            /\ audio'.inputSubs = audio.inputSubs
            /\ audio'.badRelease = audio.badRelease
            /\ UNCHANGED <<fc, camSubs, sinks, hist, handlers>>]_vars

\* removePeer of an absent id ran while another member was in the map
C14_Witness ==
    /\ last = "removePeer:absent"
    /\ gc.live
    /\ DOMAIN gc.peers # {}
    /\ Range(gc.peers) \subseteq audio.outputs

\* C15: getAlSource(id) returns 0 for an id that is not in the map and the
\* stored handle for one that is, and never changes the map.
C15_GetAlSource ==
    [][last' = "getAlSource" =>
            /\ ret'[2] = (IF ret'[1] \in DOMAIN gc.peers
                          THEN gc.peers[ret'[1]] ELSE 0)
            /\ gc' = gc
            /\ audio'.outputs = audio.outputs
            /\ audio'.released = <<>>]_vars

\* getAlSource of an id that is not in the map returned 0 while another
\* member is in the map
C15_Witness ==
    /\ last = "getAlSource"
    /\ ret = <<1, NoSource>>
    /\ DOMAIN gc.peers = {2}
    /\ gc.peers[2] \in Handles

\* C16: havePeer(X) is true right after addPeer(X) and false right after
\* removePeer(X), and neither changes the membership of any other id.
C16_Membership ==
    [][\A X \in Peers :
        /\ (\E h \in Handles : AddPeer(X, h)) =>
                /\ ToxGroupCall_havePeer(gc', X)
                /\ \A Y \in Peers \ {X} :
                        ToxGroupCall_havePeer(gc', Y) = ToxGroupCall_havePeer(gc, Y)
        /\ RemovePeer(X) =>
                /\ ~ToxGroupCall_havePeer(gc', X)
                /\ \A Y \in Peers \ {X} :
                        ToxGroupCall_havePeer(gc', Y) = ToxGroupCall_havePeer(gc, Y)]_vars

\* a member was added while another id was already in the map
C16_Witness ==
    /\ last = "addPeer:absent"
    /\ gc.live
    /\ Cardinality(DOMAIN gc.peers) = 2
    /\ \A p \in DOMAIN gc.peers : ToxGroupCall_havePeer(gc, p)

\* what a setter must leave alone outside the call object
ServicesUntouched ==
    /\ audio'.inputSubs = audio.inputSubs
    /\ audio'.outputs = audio.outputs
    /\ audio'.badRelease = audio.badRelease
    /\ audio'.released = <<>>
    /\ UNCHANGED <<gc, camSubs, sinks, fires, hist, handlers>>

\* C17: setActive, setMuteVol, setMuteMic, setVideoEnabled,
\* setNullVideoBitrate and setState each write their own field and nothing
\* else (no other field, no subscription, no channel, no timer), and the
\* matching getter then returns the value that was set.
C17_SettersWriteOneField ==
    [][/\ \A v \in BOOLEAN :
            /\ FriendSetActive(v) =>
                    /\ fc' = [fc EXCEPT !.active = v]
                    /\ ToxCall_isActive(fc') = v
                    /\ ServicesUntouched
            /\ FriendSetMuteVol(v) =>
                    /\ fc' = [fc EXCEPT !.muteVol = v]
                    /\ ToxCall_getMuteVol(fc') = v
                    /\ ServicesUntouched
            /\ FriendSetMuteMic(v) =>
                    /\ fc' = [fc EXCEPT !.muteMic = v]
                    /\ ToxCall_getMuteMic(fc') = v
                    /\ ServicesUntouched
            /\ FriendSetVideoEnabled(v) =>
                    /\ fc' = [fc EXCEPT !.videoEnabled = v]
                    /\ ToxCall_getVideoEnabled(fc') = v
                    /\ ServicesUntouched
            /\ FriendSetNullVideoBitrate(v) =>
                    /\ fc' = [fc EXCEPT !.nullVideoBitrate = v]
                    /\ ToxCall_getNullVideoBitrate(fc') = v
                    /\ ServicesUntouched
       /\ \A v \in States :
            SetState(v) =>
                    /\ fc' = [fc EXCEPT !.state = v]
                    /\ ToxFriendCall_getState(fc') = v
                    /\ ServicesUntouched]_vars

\* setters ran on a call with video, a channel and a timer counting down
C17_Witness ==
    /\ last = "setter"
    /\ fc.live
    /\ fc.muteMic
    /\ ~fc.muteVol
    /\ fc.active
    /\ fc.state = "FINISHED"
    /\ fc.videoSource # NoSink
    /\ camSubs = 1
    /\ fc.alSource \in audio.outputs
    /\ fc.timer.active

\* C18: a group call never has video: videoEnabled is false and there is no
\* sink while it lives, and it never calls the camera's subscribe or
\* unsubscribe, its destruction included.
C18_GroupNeverVideo ==
    /\ gc.live => (~gc.videoEnabled /\ gc.videoSource = NoSink)
    /\ camSubs = 0
    /\ sinks = 0

\* C19: addPeer of an id that is already in the map acquires a fresh
\* channel and stores it under that id; the map keeps its keys and its other
\* values; the handle stored before is not released and is no longer in the
\* map, and no later removePeer, clearPeers or destruction releases it.
C19_ReAddReplaces ==
    [][/\ last' = "addPeer:present" =>
            \E X \in DOMAIN gc.peers :
                /\ DOMAIN gc'.peers = DOMAIN gc.peers
                /\ \A Y \in DOMAIN gc.peers \ {X} : gc'.peers[Y] = gc.peers[Y]
                /\ gc'.peers[X] \notin audio.outputs
                /\ audio'.outputs = audio.outputs \cup {gc'.peers[X]}
                /\ audio'.released = <<>>
                /\ gc.peers[X] \notin Range(gc'.peers)
                /\ gc.peers[X] \in hist'.orphans
       /\ hist'.orphans \subseteq audio'.outputs
       /\ hist'.orphans \cap Range(gc'.peers) = {}
       /\ \A i \in DOMAIN audio'.released :
            /\ audio'.released[i] \notin hist'.orphans
            /\ audio'.released[i] \in Range(gc.peers)]_vars

\* after an addPeer of a present id, clearPeers released the stored handle
\* and left the replaced one outstanding
C19_Witness ==
    /\ last = "clearPeers"
    /\ gc.live
    /\ hist.orphans # {}
    /\ audio.released # <<>>
    /\ audio.outputs = hist.orphans

\* C20: every timeoutCall gets the callId of the startTimeout that created
\* the timer that exists; a later startTimeout with another callId does not
\* rebind it, only a stopTimeout followed by a startTimeout does.
C20_CallIdOfCreation ==
    [][/\ fc'.timer.exists => fc'.timer.conns = <<hist'.timerId>>
       /\ last' = "timeoutCall" =>
            (ret' = <<hist.timerId>> /\ hist.timerId \in CallIds)
       /\ last' \in {"startTimeout:active", "startTimeout:restart"} =>
            (fc'.timer.conns = fc.timer.conns /\ hist'.timerId = hist.timerId)
       /\ last' = "startTimeout:new" =>
            (~fc.timer.exists /\ fc'.timer.conns = ret')]_vars

\* the timer fired, then startTimeout was called with another callId
C20_Witness ==
    /\ last = "startTimeout:active"
    /\ fires >= 1
    /\ ret # <<hist.timerId>>
    /\ fc.timer.conns = <<hist.timerId>>

====
